---- MODULE Spec2Model ----
(***************************************************************************)
(* HelloWorldPlugin (samples/hello-world-plugin/hello-world/main.py) as a  *)
(* state machine: the plugin object's fields, the host's output sinks      *)
(* (stdout and the UI notification capability), the filesystem the plugin  *)
(* queries through os.path, and the metadata dicts handed to callers.      *)
(***************************************************************************)
EXTENDS Integers, Sequences, FiniteSets, TLC

VARIABLES
    name,       \* self.name
    version,    \* self.version
    api,        \* self.api, as injected by the host
    out,        \* what the plugin emitted so far: print lines and notification requests, in order
    metaHeap,   \* the dict objects get_metadata created, which their callers may alter
    fs,         \* the filesystem: a function from the existing paths to their byte sizes
    pc,         \* position inside process_file: "idle" or "getsize"
    arg,        \* file_path of the process_file call in progress or just ended, else ""
    fsTrace,    \* the os.path queries made by the call in progress or just ended
    result,     \* how the call that just ended ended
    lastOp,     \* the operation that took the last step
    nActUi      \* how many activate calls ran with a UI capability present

vars == <<name, version, api, out, metaHeap, fs, pc, arg, fsTrace, result, lastOp, nActUi>>

\* Bound: print lines, notification requests and metadata dicts created in one run.
MaxEvents == 4

Paths == {"a.txt", "docs/b.bin"}
Sizes == {0, 5}
TamperKeys == {"name"}

\* ---------------------------------------------------------------- host API

\* The values the host may leave in, or assign to, plugin.api.
ApiNone    == [isNone |-> TRUE,  attrs |-> {},     ui |-> "absent"]
ApiNoUi    == [isNone |-> FALSE, attrs |-> {},     ui |-> "absent"]
ApiFalsyUi == [isNone |-> FALSE, attrs |-> {"ui"}, ui |-> "falsy"]
ApiWithUi  == [isNone |-> FALSE, attrs |-> {"ui"}, ui |-> "truthy"]
ApiValues  == {ApiNone, ApiNoUi, ApiFalsyUi, ApiWithUi}

\* hasattr(obj, attr)
HasAttr(obj, attr) == attr \in obj.attrs

\* bool(value)
Truthy(value) == value = "truthy"

\* ---------------------------------------------------------------- filesystem

FsStates == UNION {[S -> Sizes] : S \in SUBSET Paths}

\* os.path.exists(p)
PathExists(p) == p \in DOMAIN fs

\* os.path.getsize(p), for an existing p
PathGetsize(p) == fs[p]

\* ---------------------------------------------------------------- values built by the plugin

\* f"{self.name} v{self.version} activated!" / "... deactivated!", printed to stdout
LogLine(suffix) == [kind |-> "print", text |-> name \o " v" \o version \o suffix]

\* the keyword arguments of self.api.ui.show_notification(...)
Notification ==
    [kind |-> "notify", title |-> "Hello World Plugin",
     message |-> "Plugin successfully loaded!", type |-> "success"]

\* the dict get_metadata builds
MetadataDict ==
    [name |-> name, version |-> version,
     description |-> "A simple demonstration plugin",
     author |-> "Smart File Manager Team"]

ErrorRecordExtraKey == [error |-> "File not found", file_size |-> 0]

\* the dict process_file returns for an absent path
ErrorRecord == [error |-> "File not found"]

SuccessRecordNoPath(p, s) ==
    [message |-> "Hello from plugin! Processed file: ", file_size |-> s, processed_at |-> "now"]

\* the dict process_file returns for a path p of size s
SuccessRecord(p, s) ==
    [message |-> "Hello from plugin! Processed file: " \o p, file_size |-> s,
     processed_at |-> "now"]

Room(n) == Len(out) + Len(metaHeap) + n <= MaxEvents

\* ---------------------------------------------------------------- construction

Init ==
    /\ name = "Hello World Plugin"
    /\ version = "1.0.0"
    /\ api = ApiNone
    /\ out = <<>>
    /\ metaHeap = <<>>
    /\ fs \in FsStates
    /\ pc = "idle"
    /\ arg = ""
    /\ fsTrace = <<>>
    /\ result = [kind |-> "none"]
    /\ lastOp = "init"
    /\ nActUi = 0

\* ---------------------------------------------------------------- the host and the environment

\* The host assigns plugin.api between calls.
InjectApi(a) ==
    /\ pc = "idle"
    /\ a # api
    /\ api' = a
    /\ result' = [kind |-> "none"]
    /\ lastOp' = "inject_api"
    /\ arg' = ""
    /\ fsTrace' = <<>>
    /\ UNCHANGED <<name, version, out, metaHeap, fs, pc, nActUi>>

\* Another process creates, rewrites or deletes a file, at any moment.
FsChange ==
    /\ \E p \in Paths :
        \/ /\ p \in DOMAIN fs
           /\ fs' = [q \in DOMAIN fs \ {p} |-> fs[q]]
        \/ \E s \in Sizes :
            /\ (p \in DOMAIN fs => fs[p] # s)
            /\ fs' = [q \in DOMAIN fs \cup {p} |-> IF q = p THEN s ELSE fs[q]]
    /\ result' = IF pc = "idle" THEN [kind |-> "none"] ELSE result
    /\ arg' = IF pc = "idle" THEN "" ELSE arg
    /\ fsTrace' = IF pc = "idle" THEN <<>> ELSE fsTrace
    /\ lastOp' = "fs_change"
    /\ UNCHANGED <<name, version, api, out, metaHeap, pc, nActUi>>

\* A caller of get_metadata alters a dict it was given.
CallerAlter(i, k) ==
    /\ pc = "idle"
    /\ i \in 1..Len(metaHeap)
    /\ metaHeap[i][k] # "tampered"
    /\ metaHeap' = [metaHeap EXCEPT ![i][k] = "tampered"]
    /\ result' = [kind |-> "none"]
    /\ lastOp' = "caller_alter"
    /\ arg' = ""
    /\ fsTrace' = <<>>
    /\ UNCHANGED <<name, version, api, out, fs, pc, nActUi>>

\* ---------------------------------------------------------------- HelloWorldPlugin.activate

\* activate with "if self.api.ui:" in place of the hasattr-guarded test
ActivateNoHasattr ==
    /\ pc = "idle"
    /\ Room(2)
    /\ IF ~HasAttr(api, "ui")
       THEN /\ out' = Append(out, LogLine(" activated!"))
            /\ nActUi' = nActUi
            /\ result' = [kind |-> "raise", exc |-> "AttributeError"]
       ELSE IF Truthy(api.ui)
       THEN /\ out' = out \o <<LogLine(" activated!"), Notification>>
            /\ nActUi' = nActUi + 1
            /\ result' = [kind |-> "return_none"]
       ELSE /\ out' = Append(out, LogLine(" activated!"))
            /\ nActUi' = nActUi
            /\ result' = [kind |-> "return_none"]
    /\ lastOp' = "activate"
    /\ arg' = ""
    /\ fsTrace' = <<>>
    /\ UNCHANGED <<name, version, api, metaHeap, fs, pc>>

\* activate that marks the plugin active in its name
ActivateRenames ==
    /\ pc = "idle"
    /\ Room(2)
    /\ IF HasAttr(api, "ui") /\ Truthy(api.ui)
       THEN /\ out' = out \o <<LogLine(" activated!"), Notification>>
            /\ nActUi' = nActUi + 1
       ELSE /\ out' = Append(out, LogLine(" activated!"))
            /\ nActUi' = nActUi
    /\ name' = "Hello World Plugin (active)"
    /\ result' = [kind |-> "return_none"]
    /\ lastOp' = "activate"
    /\ arg' = ""
    /\ fsTrace' = <<>>
    /\ UNCHANGED <<version, api, metaHeap, fs, pc>>

\* activate that requests the notification before it prints
ActivateNotifiesFirst ==
    /\ pc = "idle"
    /\ Room(2)
    /\ IF HasAttr(api, "ui") /\ Truthy(api.ui)
       THEN /\ out' = out \o <<Notification, LogLine(" activated!")>>
            /\ nActUi' = nActUi + 1
       ELSE /\ out' = Append(out, LogLine(" activated!"))
            /\ nActUi' = nActUi
    /\ result' = [kind |-> "return_none"]
    /\ lastOp' = "activate"
    /\ arg' = ""
    /\ fsTrace' = <<>>
    /\ UNCHANGED <<name, version, api, metaHeap, fs, pc>>

\* activate that welcomes the user only the first time it is activated
ActivateNotifiesOnce ==
    /\ pc = "idle"
    /\ Room(2)
    /\ IF HasAttr(api, "ui") /\ Truthy(api.ui)
       THEN /\ out' = IF \E i \in 1..Len(out) : out[i].kind = "notify"
                      THEN Append(out, LogLine(" activated!"))
                      ELSE out \o <<LogLine(" activated!"), Notification>>
            /\ nActUi' = nActUi + 1
       ELSE /\ out' = Append(out, LogLine(" activated!"))
            /\ nActUi' = nActUi
    /\ result' = [kind |-> "return_none"]
    /\ lastOp' = "activate"
    /\ arg' = ""
    /\ fsTrace' = <<>>
    /\ UNCHANGED <<name, version, api, metaHeap, fs, pc>>

Activate ==
    /\ pc = "idle"
    /\ Room(2)
    /\ IF HasAttr(api, "ui") /\ Truthy(api.ui)
       THEN /\ out' = out \o <<LogLine(" activated!"), Notification>>
            /\ nActUi' = nActUi + 1
       ELSE /\ out' = Append(out, LogLine(" activated!"))
            /\ nActUi' = nActUi
    /\ result' = [kind |-> "return_none"]
    /\ lastOp' = "activate"
    /\ arg' = ""
    /\ fsTrace' = <<>>
    /\ UNCHANGED <<name, version, api, metaHeap, fs, pc>>

\* ---------------------------------------------------------------- HelloWorldPlugin.deactivate

\* deactivate that also releases the host API
DeactivateDropsApi ==
    /\ pc = "idle"
    /\ Room(1)
    /\ out' = Append(out, LogLine(" deactivated!"))
    /\ api' = ApiNone
    /\ result' = [kind |-> "return_none"]
    /\ lastOp' = "deactivate"
    /\ arg' = ""
    /\ fsTrace' = <<>>
    /\ UNCHANGED <<name, version, metaHeap, fs, pc, nActUi>>

Deactivate ==
    /\ pc = "idle"
    /\ Room(1)
    /\ out' = Append(out, LogLine(" deactivated!"))
    /\ result' = [kind |-> "return_none"]
    /\ lastOp' = "deactivate"
    /\ arg' = ""
    /\ fsTrace' = <<>>
    /\ UNCHANGED <<name, version, api, metaHeap, fs, pc, nActUi>>

\* ---------------------------------------------------------------- HelloWorldPlugin.get_metadata

\* get_metadata that builds its dict once and returns the same object afterwards
GetMetadataCached ==
    /\ pc = "idle"
    /\ Room(1)
    /\ IF Len(metaHeap) = 0
       THEN /\ metaHeap' = Append(metaHeap, MetadataDict)
            /\ result' = [kind |-> "return_ref", ref |-> 1]
       ELSE /\ metaHeap' = metaHeap
            /\ result' = [kind |-> "return_ref", ref |-> 1]
    /\ lastOp' = "get_metadata"
    /\ arg' = ""
    /\ fsTrace' = <<>>
    /\ UNCHANGED <<name, version, api, out, fs, pc, nActUi>>

GetMetadata ==
    /\ pc = "idle"
    /\ Room(1)
    /\ metaHeap' = Append(metaHeap, MetadataDict)
    /\ result' = [kind |-> "return_ref", ref |-> Len(metaHeap) + 1]
    /\ lastOp' = "get_metadata"
    /\ arg' = ""
    /\ fsTrace' = <<>>
    /\ UNCHANGED <<name, version, api, out, fs, pc, nActUi>>

\* ---------------------------------------------------------------- HelloWorldPlugin.process_file

\* process_file that refuses to work before the plugin was activated
ProcessFileExistsNeedsActive(p) ==
    /\ pc = "idle"
    /\ arg' = p
    /\ IF ~\E i \in 1..Len(out) : out[i].kind = "print"
       THEN /\ fsTrace' = <<>>
            /\ result' = [kind |-> "return", value |-> [error |-> "Plugin not active"]]
            /\ lastOp' = "process_file"
            /\ pc' = "idle"
       ELSE /\ fsTrace' = <<[call |-> "exists", path |-> p, found |-> PathExists(p)]>>
            /\ IF ~PathExists(p)
               THEN /\ result' = [kind |-> "return", value |-> ErrorRecord]
                    /\ lastOp' = "process_file"
                    /\ pc' = "idle"
               ELSE /\ result' = [kind |-> "pending"]
                    /\ lastOp' = "process_file_exists"
                    /\ pc' = "getsize"
    /\ UNCHANGED <<name, version, api, out, metaHeap, fs, nActUi>>

\* Lines 38-39: the existence check, and the early return when it fails.
ProcessFileExists(p) ==
    /\ pc = "idle"
    /\ arg' = p
    /\ fsTrace' = <<[call |-> "exists", path |-> p, found |-> PathExists(p)]>>
    /\ IF ~PathExists(p)
       THEN /\ result' = [kind |-> "return", value |-> ErrorRecord]
            /\ lastOp' = "process_file"
            /\ pc' = "idle"
       ELSE /\ result' = [kind |-> "pending"]
            /\ lastOp' = "process_file_exists"
            /\ pc' = "getsize"
    /\ UNCHANGED <<name, version, api, out, metaHeap, fs, nActUi>>

\* Lines 41-47: the size query, which raises when the file is gone by now, and the return.
ProcessFileGetsize ==
    /\ pc = "getsize"
    /\ IF PathExists(arg)
       THEN /\ fsTrace' = Append(fsTrace, [call |-> "getsize", path |-> arg, raised |-> FALSE])
            /\ result' = [kind |-> "return", value |-> SuccessRecord(arg, PathGetsize(arg))]
       ELSE /\ fsTrace' = Append(fsTrace, [call |-> "getsize", path |-> arg, raised |-> TRUE])
            /\ result' = [kind |-> "raise", exc |-> "FileNotFoundError"]
    /\ lastOp' = "process_file"
    /\ pc' = "idle"
    /\ UNCHANGED <<name, version, api, out, metaHeap, fs, arg, nActUi>>

\* ---------------------------------------------------------------- specification

Next ==
    \/ Activate
    \/ Deactivate
    \/ GetMetadata
    \/ \E p \in Paths : ProcessFileExists(p)
    \/ ProcessFileGetsize
    \/ \E a \in ApiValues : InjectApi(a)
    \/ FsChange
    \/ \E i \in 1..MaxEvents, k \in TamperKeys : CallerAlter(i, k)

Spec == Init /\ [][Next]_vars

\* ---------------------------------------------------------------- properties

NotifCount(seq) == Cardinality({i \in 1..Len(seq) : seq[i].kind = "notify"})

\* C1: a process_file call whose existence check reported the path absent has returned
\* exactly {"error": "File not found"}: one key, that value, no exception, and the
\* existence check is the only filesystem query it made (no size query).
C1_NotFoundRecord ==
    (lastOp = "process_file" /\ fsTrace # <<>> /\ fsTrace[1].call = "exists" /\ ~fsTrace[1].found)
        => /\ result.kind = "return"
           /\ DOMAIN result.value = {"error"}
           /\ result.value.error = "File not found"
           /\ Len(fsTrace) = 1
           /\ fsTrace[1].path = arg
           /\ pc = "idle"

C1_Witness ==
    /\ lastOp = "process_file"
    /\ arg = "docs/b.bin"
    /\ fsTrace = <<[call |-> "exists", path |-> "docs/b.bin", found |-> FALSE]>>
    /\ result.kind = "return"
    /\ "a.txt" \in DOMAIN fs

\* C2: a process_file call that ended while its path exists with size S has returned a
\* record with exactly the fields message, file_size and processed_at (no error field),
\* where file_size = S, message contains the path and processed_at = "now".
C2_SuccessRecord ==
    (lastOp = "process_file" /\ arg \in DOMAIN fs)
        => /\ result.kind = "return"
           /\ DOMAIN result.value = {"message", "file_size", "processed_at"}
           /\ result.value.file_size = fs[arg]
           /\ \E pre \in {"Hello from plugin! Processed file: "}, post \in {""} :
                  result.value.message = pre \o arg \o post
           /\ result.value.processed_at = "now"

C2_Witness ==
    /\ lastOp = "process_file"
    /\ arg = "docs/b.bin"
    /\ arg \in DOMAIN fs
    /\ fs[arg] = 5
    /\ result.kind = "return"
    /\ result.value.file_size = 5

\* C3: every process_file call ends by returning the error record or the success record;
\* it never raises, whatever the filesystem does during the call.
C3_NeverRaises ==
    lastOp = "process_file"
        => /\ result.kind = "return"
           /\ \/ DOMAIN result.value = {"error"}
              \/ DOMAIN result.value = {"message", "file_size", "processed_at"}

\* C4: whatever calls came before, the dict a get_metadata call returns holds exactly the
\* four fields name, version, description and author with their literal values.
C4_MetadataLiteral ==
    lastOp = "get_metadata"
        => /\ result.kind = "return_ref"
           /\ result.ref \in 1..Len(metaHeap)
           /\ metaHeap[result.ref] =
                  [name |-> "Hello World Plugin", version |-> "1.0.0",
                   description |-> "A simple demonstration plugin",
                   author |-> "Smart File Manager Team"]

C4_Witness ==
    /\ lastOp = "get_metadata"
    /\ result.kind = "return_ref"
    /\ \E i, j \in 1..Len(out) :
           /\ out[i] = [kind |-> "print", text |-> "Hello World Plugin v1.0.0 activated!"]
           /\ out[j] = [kind |-> "print", text |-> "Hello World Plugin v1.0.0 deactivated!"]

\* C5: an activate call made while the api is None, or has no ui attribute, or has a falsy
\* ui, returns normally (no exception), having emitted its log line and nothing else.
C5_ActivateWithoutUi ==
    [][(lastOp' = "activate" /\ (api.isNone \/ "ui" \notin api.attrs \/ api.ui = "falsy"))
          => /\ result'.kind = "return_none"
             /\ out' = Append(out, [kind |-> "print",
                                    text |-> "Hello World Plugin v1.0.0 activated!"])
             /\ api' = api]_vars

C5_Witness ==
    /\ lastOp = "activate"
    /\ result.kind = "return_none"
    /\ api = ApiNoUi
    /\ Len(out) = 3
    /\ \A i \in 1..Len(out) : out[i].kind = "print"

\* C6: an activate call made while the api exposes a UI capability emits the activation
\* log line and then requests exactly one notification, titled "Hello World Plugin", with
\* message "Plugin successfully loaded!" and type "success"; no step of any other
\* operation requests a notification.
C6_ActivateNotifies ==
    [][/\ (lastOp' = "activate" /\ ~api.isNone /\ "ui" \in api.attrs /\ api.ui = "truthy")
            => /\ result'.kind = "return_none"
               /\ out' = out \o
                      <<[kind |-> "print", text |-> "Hello World Plugin v1.0.0 activated!"],
                        [kind |-> "notify", title |-> "Hello World Plugin",
                         message |-> "Plugin successfully loaded!", type |-> "success"]>>
       /\ lastOp' # "activate" => NotifCount(out') = NotifCount(out)]_vars

C6_Witness ==
    /\ lastOp = "activate"
    /\ api = ApiWithUi
    /\ Len(out) = 3
    /\ out[1].kind = "print"
    /\ out[2].kind = "print"
    /\ out[3].kind = "notify"

\* C7: a deactivate call emits its one log line and changes nothing else: no notification
\* even with a UI capability present, no file touched, name, version and api as before.
C7_DeactivateFrame ==
    [][lastOp' = "deactivate"
          => /\ out' = Append(out, [kind |-> "print",
                                    text |-> "Hello World Plugin v1.0.0 deactivated!"])
             /\ result'.kind = "return_none"
             /\ UNCHANGED <<name, version, api, fs, metaHeap>>]_vars

C7_Witness ==
    /\ lastOp = "deactivate"
    /\ api = ApiWithUi
    /\ NotifCount(out) = 1
    /\ out[Len(out)].kind = "print"
    /\ fs # <<>>

\* C8: a get_metadata call changes no plugin field, emits nothing, touches no file, and
\* returns a newly created dict: it leaves every dict returned earlier as its caller left
\* it, and the new dict holds the literal values even when an earlier one was altered.
C8_GetMetadataPure ==
    [][lastOp' = "get_metadata"
          => /\ UNCHANGED <<name, version, api, out, fs>>
             /\ result'.kind = "return_ref"
             /\ result'.ref = Len(metaHeap) + 1
             /\ Len(metaHeap') = Len(metaHeap) + 1
             /\ \A i \in 1..Len(metaHeap) : metaHeap'[i] = metaHeap[i]
             /\ DOMAIN metaHeap'[result'.ref] = {"name", "version", "description", "author"}
             /\ metaHeap'[result'.ref].name = "Hello World Plugin"
             /\ metaHeap'[result'.ref].version = "1.0.0"
             /\ metaHeap'[result'.ref].description = "A simple demonstration plugin"
             /\ metaHeap'[result'.ref].author = "Smart File Manager Team"]_vars

C8_Witness ==
    /\ lastOp = "get_metadata"
    /\ result.kind = "return_ref"
    /\ result.ref = 2
    /\ metaHeap[1].name = "tampered"
    /\ metaHeap[2].name = "Hello World Plugin"

\* C9: activate and deactivate are accepted in any order, any number of times, whenever no
\* call is in progress, and every activate call with a UI capability present requests a
\* notification whatever came before: n such calls have requested n notifications.
C9_NoSequencing ==
    /\ NotifCount(out) = nActUi
    /\ (pc = "idle" /\ Room(2)) => (ENABLED Activate /\ ENABLED Deactivate)

C9_Witness ==
    /\ lastOp = "activate"
    /\ nActUi = 2
    /\ Len(out) = 4
    /\ out[1].kind = "print"
    /\ out[2].kind = "notify"
    /\ out[3].kind = "print"
    /\ out[4].kind = "notify"

\* C10: a step of process_file changes neither the plugin's fields nor any file nor the
\* output, and the record a call returns is decided by its path and the filesystem alone:
\* the error record when the path is absent, the success record with the path's size when
\* it exists, whatever lifecycle calls came before.
C10_ProcessFileReadOnly ==
    [][(lastOp' = "process_file" \/ lastOp' = "process_file_exists")
          => /\ UNCHANGED <<name, version, api, fs, out, metaHeap, nActUi>>
             /\ (lastOp' = "process_file" /\ result'.kind = "return")
                   => result'.value =
                         IF arg' \in DOMAIN fs
                         THEN [message |-> "Hello from plugin! Processed file: " \o arg',
                               file_size |-> fs[arg'], processed_at |-> "now"]
                         ELSE [error |-> "File not found"]]_vars

C10_Witness ==
    /\ lastOp = "process_file"
    /\ result.kind = "return"
    /\ arg \in DOMAIN fs
    /\ api = ApiWithUi
    /\ Len(out) = 3
    /\ out[3] = [kind |-> "print", text |-> "Hello World Plugin v1.0.0 deactivated!"]

====
